---- MODULE Spec2Model ----
(***************************************************************************)
(* Model of the survey dashboard component (src/src/app.component.ts) and  *)
(* the two services it uses (src/src/services/gemini.service.ts):          *)
(* the sheet import, the pending/applied filter selection, the six report  *)
(* signals and the requests outstanding at the generation service.         *)
(*                                                                         *)
(* JavaScript runs one handler at a time.  A handler runs up to its first  *)
(* await; the continuation of a settled promise is a microtask, and every  *)
(* microtask runs before the next user event or network completion.        *)
(***************************************************************************)
EXTENDS Integers, Sequences, FiniteSets, TLC

VARIABLES
    sheetUrl, isLoading, errorMessage, dataLoaded,          \* UI state signals
    startDate, endDate, selectedMateria, selectedParalelo,  \* UI-bound filters
    appliedStartDate, appliedEndDate,
    appliedSelectedMateria, appliedSelectedParalelo,        \* applied filters
    allData,                                                \* data signal
    stateSignal,                                            \* the six report signals
    isModalVisible, modal, modalErrorMessage,               \* modal form
    loads,          \* loadData activations suspended at their await
    requests,       \* callGemini activations suspended at their await
    nextLoad,       \* the number of loadData activations so far, plus one
    nextRequest,    \* the number of callGemini activations so far, plus one
    tzOffset,       \* the browser's time zone, hours east of UTC
    lastCall        \* the report kind whose generate* handler ran in the last
                    \* step, "none" when the last step was anything else

vars == <<sheetUrl, isLoading, errorMessage, dataLoaded,
          startDate, endDate, selectedMateria, selectedParalelo,
          appliedStartDate, appliedEndDate,
          appliedSelectedMateria, appliedSelectedParalelo,
          allData, stateSignal, isModalVisible, modal, modalErrorMessage,
          loads, requests, nextLoad, nextRequest, tzOffset, lastCall>>

filterVars == <<startDate, endDate, selectedMateria, selectedParalelo>>
appliedVars == <<appliedStartDate, appliedEndDate,
                 appliedSelectedMateria, appliedSelectedParalelo>>
importVars == <<isLoading, errorMessage, dataLoaded>>
modalVars == <<isModalVisible, modal, modalErrorMessage>>

----------------------------------------------------------------------------
(* Bounds of the model. *)

\* loadData activations in one behaviour
MaxLoads == 2
\* callGemini activations in one behaviour
MaxRequests == 2

----------------------------------------------------------------------------
(* Strings.  A free-text answer is a sequence of one-character strings, so  *)
(* that trim() and toLowerCase() are computed, not assumed.                 *)

Whitespace == {" "}

ToLowerChar(c) ==
    CASE c = "A" -> "a" [] c = "D" -> "d" [] c = "N" -> "n"
      [] c = "O" -> "o" [] c = "V" -> "v" [] c = "M" -> "m"
      [] OTHER -> c

toLowerCase(s) == [i \in 1..Len(s) |-> ToLowerChar(s[i])]

RECURSIVE TrimStart(_)
TrimStart(s) ==
    IF s # <<>> /\ Head(s) \in Whitespace THEN TrimStart(Tail(s)) ELSE s

RECURSIVE TrimEnd(_)
TrimEnd(s) ==
    IF s # <<>> /\ s[Len(s)] \in Whitespace
    THEN TrimEnd(SubSeq(s, 1, Len(s) - 1)) ELSE s

trim(s) == TrimEnd(TrimStart(s))

----------------------------------------------------------------------------
(* DataService: column headers. *)

learningIndex == "learning"
confusedIndex == "confused"
questionIndex == "question"
comprehensionIndex == "comprehension"
suggestionIndex == "suggestion"
engagementIndex == "engagement"
scoreIndex == "score"

requiredHeaders ==
    {"Timestamp", "Email Address", "Materia", "Paralelo",
     learningIndex, confusedIndex, questionIndex,
     comprehensionIndex, suggestionIndex, engagementIndex, scoreIndex}

----------------------------------------------------------------------------
(* Dates.  A Date is its time value in hours since the epoch (UTC); NaN is  *)
(* the time value of an Invalid Date.  The sheet's Timestamp text is a      *)
(* local date-time, given here as local hours since the epoch, or           *)
(* BadTimestampText when Date cannot parse it.  A date input's value is     *)
(* "" or a "YYYY-MM-DD" string.                                             *)

NaN == -100000
BadTimestampText == -1
HoursPerDay == 24

\* new Date(d.Timestamp): a date-time text without zone is local time
ParseTimestamp(text) ==
    IF text = BadTimestampText THEN NaN ELSE text - tzOffset

DateInputs == {"1970-01-02", "1970-01-03"}
DayOfInput(s) == IF s = "1970-01-02" THEN 1 ELSE 2

\* new Date("YYYY-MM-DD"): a date-only text is midnight UTC
ParseDateInput(s) == DayOfInput(s) * HoursPerDay

\* Date.prototype.setHours(23, 59, 59, 999), at the model's resolution of
\* one hour: the last hour of the LOCAL day the time value falls in
SetHoursEndOfDay(t) ==
    (((t + tzOffset) \div HoursPerDay) * HoursPerDay) + (HoursPerDay - 1) - tzOffset

\* a >= b and a <= b on Dates: false when either is an Invalid Date
DateGE(a, b) == a # NaN /\ b # NaN /\ a >= b
DateLE(a, b) == a # NaN /\ b # NaN /\ a <= b

----------------------------------------------------------------------------
(* The sheets the network can answer with.  Papa.parse(header: true) gives  *)
(* one object per data line, keyed by the header line; a line whose field   *)
(* count differs from the header's is reported in results.errors.           *)

Row(ts, materia, paralelo, l, c, q, s) ==
    [h \in requiredHeaders |->
        CASE h = "Timestamp" -> ts
          [] h = "Materia" -> materia
          [] h = "Paralelo" -> paralelo
          [] h = learningIndex -> l
          [] h = confusedIndex -> c
          [] h = questionIndex -> q
          [] h = suggestionIndex -> s
          [] OTHER -> "x"]

Vectores == <<"V", "e", "c">>
No == <<" ", "N", "o", " ">>
Dot == <<".">>
Nada == <<"N", "a", "d", "a">>
Ninguna == <<"n", "i", "n", "g", "u", "n", "a">>
Ninguno == <<"N", "i", "n", "g", "u", "n", "o">>
Blank == <<" ">>
NoDot == <<"n", "o", ".">>
MasEjemplos == <<"M", "a", "s">>

\* Fisica / A, 2 January 10:00
RowFisica == Row(34, "Fisica", "A", Vectores, No, Dot, Nada)
\* Quimica / B, 3 January 23:00
RowQuimica == Row(71, "Quimica", "B", Blank, NoDot, Ninguna, MasEjemplos)
\* Fisica / B, a Timestamp that Date cannot parse
RowCallada == Row(BadTimestampText, "Fisica", "B", <<>>, Ninguno, No, Dot)
\* a line without Materia: dropped by the import
RowSinMateria == Row(40, "", "A", Vectores, Vectores, Vectores, Vectores)
\* Quimica / A, 2 January 08:00, with a question
RowPregunta == Row(32, "Quimica", "A", Nada, Dot, Vectores, Blank)

DropHeader(row, h) == [k \in (DOMAIN row) \ {h} |-> row[k]]

\* What http.get(csvUrl) can settle with: a body (ok), given as what
\* Papa.parse makes of it, or an HTTP/network failure.
Csv(errors, data) == [ok |-> TRUE, errors |-> errors, data |-> data]

CsvA == Csv(0, <<RowFisica, RowSinMateria, RowQuimica, RowCallada>>)
CsvB == Csv(0, <<RowPregunta>>)
CsvEmpty == Csv(0, <<>>)
CsvBroken == Csv(1, <<RowFisica>>)
CsvNoParalelo == Csv(0, <<DropHeader(RowFisica, "Paralelo")>>)
HttpFailure == [ok |-> FALSE, errors |-> 0, data |-> <<>>]
HttpResponses == {CsvA, CsvB, CsvEmpty, CsvBroken, CsvNoParalelo, HttpFailure}

----------------------------------------------------------------------------
(* DataService.loadDataFromSheet *)

\* A URL is the sequence of its "/"-separated segments after the scheme.
UrlEmpty == <<>>
UrlNoSheet == <<"example.com", "sheet">>
UrlSheet == <<"docs.google.com", "spreadsheets", "d", "abc", "edit">>
Urls == {UrlEmpty, UrlNoSheet, UrlSheet}

\* url.match(/\/d\/([a-zA-Z0-9-_]+)/): a segment "d" followed by an id
MatchSheetId(url) ==
    {i \in 1..(Len(url) - 1) : url[i] = "d" /\ url[i + 1] # ""}

\* the part of loadDataFromSheet before the await: the error thrown, or "none"
UrlError(url) ==
    IF url = <<>> THEN "EmptyUrl"
    ELSE IF MatchSheetId(url) = {} THEN "InvalidUrl"
    ELSE "none"

HasMateria(row) == row["Materia"] # ""

ProcessRow(d) ==
    [h \in DOMAIN d |-> IF h = "Timestamp" THEN ParseTimestamp(d[h]) ELSE d[h]]

processedData(results) ==
    LET kept == SelectSeq(results.data, HasMateria)
    IN  [i \in 1..Len(kept) |-> ProcessRow(kept[i])]

\* the Papa.parse complete callback: the error rejected with, or "none"
ParseError(results) ==
    IF results.errors > 0 THEN "ParseError"
    ELSE IF Len(results.data) = 0 THEN "EmptySheet"
    ELSE IF ~(requiredHeaders \subseteq DOMAIN results.data[1])
         THEN "SchemaMismatch"
    ELSE "none"

\* how the promise of loadDataFromSheet settles once http.get has settled
SheetOutcome(response) ==
    IF ~response.ok
    THEN [error |-> "FetchError", data |-> <<>>]
    ELSE IF ParseError(response) # "none"
    THEN [error |-> ParseError(response), data |-> <<>>]
    ELSE [error |-> "none", data |-> processedData(response)]

----------------------------------------------------------------------------
(* AppComponent: computed signals. *)

FilterRow(row, start, end, materia, paralelo) ==
    LET rowDate == row["Timestamp"]
        isAfterStartDate == start = "" \/ DateGE(rowDate, ParseDateInput(start))
        isBeforeEndDate ==
            end = "" \/ DateLE(rowDate, SetHoursEndOfDay(ParseDateInput(end)))
        isCorrectMateria == materia = "" \/ row["Materia"] = materia
        isCorrectParalelo == paralelo = "" \/ row["Paralelo"] = paralelo
    IN  isAfterStartDate /\ isBeforeEndDate /\ isCorrectMateria /\ isCorrectParalelo

FilterData(data, start, end, materia, paralelo) ==
    IF Len(data) = 0 THEN <<>>
    ELSE LET Keep(row) == FilterRow(row, start, end, materia, paralelo)
         IN  SelectSeq(data, Keep)

filteredData ==
    FilterData(allData, appliedStartDate, appliedEndDate,
               appliedSelectedMateria, appliedSelectedParalelo)

----------------------------------------------------------------------------
(* AppComponent: the report signals. *)

InsightKinds == {"learnings", "confused", "questions", "suggestions"}
ReportKinds == InsightKinds \cup {"lessonPlan", "studentGuide"}

\* The content of a report signal: null, or a string of display markup.
Null == [tag |-> "null"]
NoMeaningfulResponses == [tag |-> "html", from |-> "fixed", text |-> <<"no-meaningful">>]
ErrorContent(message) == [tag |-> "html", from |-> "error", text |-> message]

\* marked.parse(result): the empty text renders to the empty string
MarkedParse(result) == [tag |-> "html", from |-> "marked", text |-> result]

\* Truthy taking the empty string for a value
TruthyNonNull(content) == content # Null

\* JavaScript truthiness of a content value
Truthy(content) ==
    /\ content # Null
    /\ ~(content.from = "marked" /\ content.text = <<>>)

createSummarySignal == [loading |-> FALSE, content |-> Null]
InFlight == [loading |-> TRUE, content |-> Null]
Settled(content) == [loading |-> FALSE, content |-> content]

\* resetAISummaries without its last line
resetAISummariesButSuggestions(signals) ==
    [k \in ReportKinds |->
        IF k \in InsightKinds \ {"suggestions"} THEN [content |-> Null, loading |-> FALSE]
        ELSE signals[k]]

resetAISummaries(signals) ==
    [k \in ReportKinds |->
        IF k \in InsightKinds THEN [content |-> Null, loading |-> FALSE]
        ELSE signals[k]]

resetLessonPlan(signals) ==
    [k \in ReportKinds |->
        IF k \in {"lessonPlan", "studentGuide"}
        THEN [content |-> Null, loading |-> FALSE]
        ELSE signals[k]]

----------------------------------------------------------------------------
(* The event loop. *)

\* A settled loadDataFromSheet promise whose continuation has not run yet.
MicrotaskPending == \E l \in loads : l.state = "settled"

\* A user event or a network completion is dispatched only between tasks.
Idle == ~MicrotaskPending

NullMessage == "null"

----------------------------------------------------------------------------
(* AppComponent: data loading and filtering. *)

onUrlInput(value) ==
    /\ Idle
    /\ sheetUrl' = value
    /\ lastCall' = "none"
    /\ UNCHANGED <<importVars, filterVars, appliedVars, allData, stateSignal,
                   modalVars, loads, requests, nextLoad, nextRequest, tzOffset>>

\* loadData up to its await.  loadDataFromSheet throws before its own await
\* when the URL is empty or has no sheet id: its promise is then already
\* rejected, and the catch block runs as the next microtask.
loadData ==
    /\ Idle
    /\ nextLoad <= MaxLoads
    /\ isLoading' = TRUE
    /\ errorMessage' = NullMessage
    /\ dataLoaded' = FALSE
    /\ loads' = loads \cup
         {IF UrlError(sheetUrl) # "none"
          THEN [id |-> nextLoad, state |-> "settled",
                outcome |-> [error |-> UrlError(sheetUrl), data |-> <<>>]]
          ELSE [id |-> nextLoad, state |-> "fetching",
                outcome |-> [error |-> "none", data |-> <<>>]]}
    /\ nextLoad' = nextLoad + 1
    /\ lastCall' = "none"
    /\ UNCHANGED <<sheetUrl, filterVars, appliedVars, allData, stateSignal,
                   modalVars, requests, nextRequest, tzOffset>>

\* http.get settles: loadDataFromSheet resumes, parses and settles its promise.
httpGetSettles(l, response) ==
    /\ Idle
    /\ l \in loads
    /\ l.state = "fetching"
    /\ loads' = (loads \ {l}) \cup
         {[id |-> l.id, state |-> "settled", outcome |-> SheetOutcome(response)]}
    /\ lastCall' = "none"
    /\ UNCHANGED <<sheetUrl, importVars, filterVars, appliedVars, allData,
                   stateSignal, modalVars, requests, nextLoad, nextRequest, tzOffset>>

onFilterChange(filterType, value) ==
    /\ Idle
    /\ startDate' = IF filterType = "startDate" THEN value ELSE startDate
    /\ endDate' = IF filterType = "endDate" THEN value ELSE endDate
    /\ selectedMateria' = IF filterType = "materia" THEN value ELSE selectedMateria
    /\ selectedParalelo' = IF filterType = "paralelo" THEN value ELSE selectedParalelo
    /\ lastCall' = "none"
    /\ UNCHANGED <<sheetUrl, importVars, appliedVars, allData, stateSignal,
                   modalVars, loads, requests, nextLoad, nextRequest, tzOffset>>

\* The body of applyFilters, also run by loadData after a successful import.
applyFiltersBody ==
    /\ appliedStartDate' = startDate
    /\ appliedEndDate' = endDate
    /\ appliedSelectedMateria' = selectedMateria
    /\ appliedSelectedParalelo' = selectedParalelo
    /\ stateSignal' = resetLessonPlan(resetAISummaries(stateSignal))

applyFilters ==
    /\ Idle
    /\ applyFiltersBody
    /\ lastCall' = "none"
    /\ UNCHANGED <<sheetUrl, importVars, filterVars, allData, modalVars,
                   loads, requests, nextLoad, nextRequest, tzOffset>>

\* loadData after its await: the try block's remainder or the catch block,
\* then the finally block.
\* loadDataThen that lets only the load started last write its rows
loadDataThenLatestOnly(l) ==
    /\ l.outcome.error = "none"
    /\ allData' = IF l.id = nextLoad - 1 THEN l.outcome.data ELSE allData
    /\ applyFiltersBody
    /\ dataLoaded' = TRUE
    /\ errorMessage' = errorMessage

loadDataThen(l) ==
    /\ l.outcome.error = "none"
    /\ allData' = l.outcome.data
    /\ applyFiltersBody
    /\ dataLoaded' = TRUE
    /\ errorMessage' = errorMessage

\* loadDataCatch without this.allData.set([])
loadDataCatchKeepsData(l) ==
    /\ l.outcome.error # "none"
    /\ errorMessage' = l.outcome.error
    /\ allData' = allData
    /\ dataLoaded' = dataLoaded
    /\ UNCHANGED <<appliedVars, stateSignal>>

loadDataCatch(l) ==
    /\ l.outcome.error # "none"
    /\ errorMessage' = l.outcome.error
    /\ allData' = <<>>
    /\ dataLoaded' = dataLoaded
    /\ UNCHANGED <<appliedVars, stateSignal>>

loadDataResumes(l) ==
    /\ l \in loads
    /\ l.state = "settled"
    /\ loadDataThen(l) \/ loadDataCatch(l)
    /\ isLoading' = FALSE
    /\ loads' = loads \ {l}
    /\ lastCall' = "none"
    /\ UNCHANGED <<sheetUrl, filterVars, modalVars, requests, nextLoad,
                   nextRequest, tzOffset>>

----------------------------------------------------------------------------
(* AppComponent: AI generation methods. *)

dataIndex(type) ==
    CASE type = "learnings" -> learningIndex
      [] type = "confused" -> confusedIndex
      [] type = "questions" -> questionIndex
      [] type = "suggestions" -> suggestionIndex

NonAnswers == {<<"n", "o">>, <<"n", "i", "n", "g", "u", "n", "a">>,
               <<"n", "i", "n", "g", "u", "n", "o">>, <<"n", "a", "d", "a">>}

\* IsMeaningful comparing the answer itself with the lower-case tokens
IsMeaningfulCaseSensitive(text) ==
    /\ text # <<>>
    /\ text # <<".">>
    /\ text \notin NonAnswers

\* the predicate of generateSummary's filter, on a trimmed answer
IsMeaningful(text) ==
    /\ text # <<>>
    /\ text # <<".">>
    /\ toLowerCase(text) \notin NonAnswers

\* data.map(d => d[dataIndex]?.trim()).filter(...)
Responses(data, type) ==
    LET trimmed == [i \in 1..Len(data) |-> trim(data[i][dataIndex(type)])]
    IN  SelectSeq(trimmed, IsMeaningful)

\* the text the model generates for request r: each request has its own
GeneratedText(r) == <<"md", r.id>>

\* what generateContent can settle with for request r: the model's text
\* (possibly empty), or a failure
GeminiReplies(r) ==
    {[ok |-> TRUE, text |-> GeneratedText(r)], [ok |-> TRUE, text |-> <<>>],
     [ok |-> FALSE, text |-> <<"Failed to generate content">>]}

\* SettledContent with a catch block that drops the error message
SettledContentDropsError(reply) ==
    IF reply.ok THEN MarkedParse(reply.text) ELSE Null

\* the content callGemini stores when generateContent has settled
SettledContent(reply) ==
    IF reply.ok THEN MarkedParse(reply.text) ELSE ErrorContent(reply.text)

\* callGemini that gives up the earlier requests of the same report
callGeminiCancelsEarlier(userQuery, systemPrompt, kind) ==
    /\ nextRequest <= MaxRequests
    /\ stateSignal' = [stateSignal EXCEPT ![kind] = [loading |-> TRUE, content |-> Null]]
    /\ requests' = {r \in requests : r.kind # kind} \cup
         {[id |-> nextRequest, kind |-> kind,
           userQuery |-> userQuery, systemPrompt |-> systemPrompt]}
    /\ nextRequest' = nextRequest + 1

\* callGemini up to its await
callGemini(userQuery, systemPrompt, kind) ==
    /\ nextRequest <= MaxRequests
    /\ stateSignal' = [stateSignal EXCEPT ![kind] = [loading |-> TRUE, content |-> Null]]
    /\ requests' = requests \cup
         {[id |-> nextRequest, kind |-> kind,
           userQuery |-> userQuery, systemPrompt |-> systemPrompt]}
    /\ nextRequest' = nextRequest + 1

\* callGemini without its catch block: a failure leaves the report loading
callGeminiResumesUncaught(r, reply) ==
    /\ Idle
    /\ r \in requests
    /\ stateSignal' = IF reply.ok
                      THEN [stateSignal EXCEPT ![r.kind] =
                               [loading |-> FALSE, content |-> SettledContent(reply)]]
                      ELSE stateSignal
    /\ requests' = requests \ {r}
    /\ lastCall' = "none"
    /\ UNCHANGED <<sheetUrl, importVars, filterVars, appliedVars, allData,
                   modalVars, loads, nextLoad, nextRequest, tzOffset>>

\* callGemini after its await: the try block's remainder or the catch block
callGeminiResumes(r, reply) ==
    /\ Idle
    /\ r \in requests
    /\ stateSignal' = [stateSignal EXCEPT ![r.kind] =
                          [loading |-> FALSE, content |-> SettledContent(reply)]]
    /\ requests' = requests \ {r}
    /\ lastCall' = "none"
    /\ UNCHANGED <<sheetUrl, importVars, filterVars, appliedVars, allData,
                   modalVars, loads, nextLoad, nextRequest, tzOffset>>

SummaryQuery(responses) ==
    [materia |-> IF selectedMateria = "" THEN "Todas" ELSE selectedMateria,
     responses |-> responses]

generateSummary(type) ==
    /\ Idle
    /\ LET data == filteredData
           responses == Responses(data, type)
       IN  IF Len(data) = 0
           THEN /\ lastCall' = type
                /\ UNCHANGED <<stateSignal, requests, nextRequest>>
           ELSE IF Len(responses) = 0
           THEN /\ stateSignal' = [stateSignal EXCEPT ![type] =
                       [loading |-> FALSE, content |-> NoMeaningfulResponses]]
                /\ lastCall' = type
                /\ UNCHANGED <<requests, nextRequest>>
           ELSE /\ callGemini(SummaryQuery(responses), type, type)
                /\ lastCall' = type
    /\ UNCHANGED <<sheetUrl, importVars, filterVars, appliedVars, allData,
                   modalVars, loads, nextLoad, tzOffset>>

\* The modal form: the five required inputs and the optional class product.
RequiredFields == {"modalNextTopic", "modalNumStudents", "modalClassDuration",
                   "modalMateriaOutcome", "modalUnitOutcome"}
ModalFields == RequiredFields \cup {"modalClassProduct"}

FormEmpty == [f \in ModalFields |-> ""]
FormComplete == [f \in ModalFields |-> IF f \in RequiredFields THEN "x" ELSE ""]
FormWithout(field) == [FormComplete EXCEPT ![field] = ""]
\* every required input filled, the next topic with a single space
FormSpaces == [FormComplete EXCEPT !["modalNextTopic"] = " "]
ModalForms ==
    {FormEmpty, FormComplete, FormSpaces} \cup {FormWithout(f) : f \in RequiredFields}

\* the modal's inputs are bound to the modal* signals
onModalInput(form) ==
    /\ Idle
    /\ modal' = form
    /\ lastCall' = "none"
    /\ UNCHANGED <<sheetUrl, importVars, filterVars, appliedVars, allData,
                   stateSignal, isModalVisible, modalErrorMessage,
                   loads, requests, nextLoad, nextRequest, tzOffset>>

openModal ==
    /\ Idle
    /\ isModalVisible' = TRUE
    /\ lastCall' = "none"
    /\ UNCHANGED <<sheetUrl, importVars, filterVars, appliedVars, allData,
                   stateSignal, modal, modalErrorMessage,
                   loads, requests, nextLoad, nextRequest, tzOffset>>

closeModal ==
    /\ Idle
    /\ isModalVisible' = FALSE
    /\ lastCall' = "none"
    /\ UNCHANGED <<sheetUrl, importVars, filterVars, appliedVars, allData,
                   stateSignal, modal, modalErrorMessage,
                   loads, requests, nextLoad, nextRequest, tzOffset>>

\* content || '<placeholder>'
ContentOr(content, placeholder) ==
    IF Truthy(content) THEN content
    ELSE [tag |-> "html", from |-> "fixed", text |-> placeholder]

\* requiredFields without modalUnitOutcome
SomeRequiredBlankButUnit(form) ==
    \E f \in RequiredFields \ {"modalUnitOutcome"} : form[f] = ""

SomeRequiredBlank(form) == \E f \in RequiredFields : form[f] = ""

LessonPlanSystemPrompt(form) ==
    [duration |-> form["modalClassDuration"], topic |-> form["modalNextTopic"]]

LessonPlanQuery(form, confusedText, questionsText) ==
    [materia |-> selectedMateria,
     students |-> form["modalNumStudents"],
     topic |-> form["modalNextTopic"],
     materiaOutcome |-> form["modalMateriaOutcome"],
     unitOutcome |-> form["modalUnitOutcome"],
     product |-> IF form["modalClassProduct"] = "" THEN "Ninguno"
                 ELSE form["modalClassProduct"],
     confusedText |-> confusedText,
     questionsText |-> questionsText]

generateLessonPlan ==
    /\ Idle
    /\ LET confusedText == ContentOr(stateSignal["confused"].content, <<"no-confused">>)
           questionsText == ContentOr(stateSignal["questions"].content, <<"no-questions">>)
       IN  IF SomeRequiredBlank(modal)
           THEN /\ modalErrorMessage' = "required"
                /\ lastCall' = "lessonPlan"
                /\ UNCHANGED <<isModalVisible, stateSignal, requests, nextRequest>>
           ELSE /\ modalErrorMessage' = NullMessage
                /\ isModalVisible' = FALSE
                /\ callGemini(LessonPlanQuery(modal, confusedText, questionsText),
                              LessonPlanSystemPrompt(modal), "lessonPlan")
                /\ lastCall' = "lessonPlan"
    /\ UNCHANGED <<sheetUrl, importVars, filterVars, appliedVars, allData,
                   modal, loads, nextLoad, tzOffset>>

StudentGuideQuery(plan) == [materia |-> selectedMateria, plan |-> plan]

generateStudentGuide ==
    /\ Idle
    /\ LET plan == stateSignal["lessonPlan"].content
       IN  IF ~Truthy(plan) \/ stateSignal["lessonPlan"].loading
           THEN /\ lastCall' = "studentGuide"
                /\ UNCHANGED <<stateSignal, requests, nextRequest>>
           ELSE /\ callGemini(StudentGuideQuery(plan), "coach", "studentGuide")
                /\ lastCall' = "studentGuide"
    /\ UNCHANGED <<sheetUrl, importVars, filterVars, appliedVars, allData,
                   modalVars, loads, nextLoad, tzOffset>>

----------------------------------------------------------------------------
(* The specification. *)

TimezoneOffsets == {-5, 0}

MateriaChoices == {"", "Fisica"}
ParaleloChoices == {"", "B"}
DateChoices == {""} \cup DateInputs

FilterInputs(filterType) ==
    CASE filterType = "startDate" -> DateChoices
      [] filterType = "endDate" -> DateChoices
      [] filterType = "materia" -> MateriaChoices
      [] filterType = "paralelo" -> ParaleloChoices

FilterTypes == {"startDate", "endDate", "materia", "paralelo"}

Init ==
    /\ sheetUrl = UrlEmpty
    /\ isLoading = FALSE
    /\ errorMessage = NullMessage
    /\ dataLoaded = FALSE
    /\ startDate = ""
    /\ endDate = ""
    /\ selectedMateria = ""
    /\ selectedParalelo = ""
    /\ appliedStartDate = ""
    /\ appliedEndDate = ""
    /\ appliedSelectedMateria = ""
    /\ appliedSelectedParalelo = ""
    /\ allData = <<>>
    /\ stateSignal = [k \in ReportKinds |-> createSummarySignal]
    /\ isModalVisible = FALSE
    /\ modal = FormEmpty
    /\ modalErrorMessage = NullMessage
    /\ loads = {}
    /\ requests = {}
    /\ nextLoad = 1
    /\ nextRequest = 1
    /\ tzOffset \in TimezoneOffsets
    /\ lastCall = "none"

Next ==
    \/ \E value \in Urls : onUrlInput(value)
    \/ loadData
    \/ \E l \in loads, response \in HttpResponses : httpGetSettles(l, response)
    \/ \E l \in loads : loadDataResumes(l)
    \/ \E t \in FilterTypes : \E value \in FilterInputs(t) : onFilterChange(t, value)
    \/ applyFilters
    \/ \E type \in InsightKinds : generateSummary(type)
    \/ \E form \in ModalForms : onModalInput(form)
    \/ openModal
    \/ closeModal
    \/ generateLessonPlan
    \/ generateStudentGuide
    \/ \E r \in requests : \E reply \in GeminiReplies(r) : callGeminiResumes(r, reply)

Spec == Init /\ [][Next]_vars

----------------------------------------------------------------------------
(* Scopes.  The full state space is the product of the import, the         *)
(* selection, the modal form and the six reports; each specification below *)
(* runs every handler but keeps the behaviours within one part of it.      *)

NoDates == startDate = "" /\ endDate = ""
OnlyMateria == NoDates /\ selectedParalelo = ""
NoSelection == OnlyMateria /\ selectedMateria = ""

\* one import, of a well-formed sheet, and the URL box left alone after it
OneGoodSheet ==
    /\ nextLoad <= 2
    /\ sheetUrl \in {UrlEmpty, UrlSheet}
    /\ nextLoad = 2 => sheetUrl = UrlSheet
    /\ \A l \in loads : l.outcome.error = "none"

OnlySheetA == \A l \in loads : Len(l.outcome.data) # 1

\* Imports in every order and with every outcome; one learnings request.
ImportScope ==
    /\ tzOffset = 0
    /\ OnlyMateria
    /\ modal = FormEmpty
    /\ nextRequest <= 2
    /\ \A r \in requests : r.kind = "learnings"
    /\ \A k \in InsightKinds \ {"learnings"} : stateSignal[k] = createSummarySignal

\* All six reports, over the unfiltered sheet A, requested once it is loaded.
ReportsScope ==
    /\ tzOffset = 0
    /\ OneGoodSheet /\ OnlySheetA
    /\ NoSelection
    /\ modal \in {FormEmpty, FormComplete}
    /\ allData = <<>> => nextRequest = 1

\* Every Materia/Paralelo selection over sheets A and B; one request.
FiltersScope ==
    /\ tzOffset = 0
    /\ OneGoodSheet
    /\ NoDates
    /\ modal \in {FormEmpty, FormComplete}
    /\ nextRequest <= 2

\* Every modal form; the questions, lessonPlan and studentGuide reports.
ModalScope ==
    /\ tzOffset = 0
    /\ OneGoodSheet /\ OnlySheetA
    /\ NoSelection
    /\ \A r \in requests : r.kind \notin InsightKinds
    /\ \A k \in InsightKinds \ {"questions"} : stateSignal[k] = createSummarySignal

\* Every date and Materia selection over sheet A, in both time zones; one
\* learnings request.
DatesScope ==
    /\ OneGoodSheet /\ OnlySheetA
    /\ selectedParalelo = ""
    /\ modal = FormEmpty
    /\ nextRequest <= 2
    /\ \A r \in requests : r.kind = "learnings"
    /\ \A k \in InsightKinds \ {"learnings"} : stateSignal[k] = createSummarySignal

NextImport ==
    \/ (\E value \in Urls : onUrlInput(value)) /\ ImportScope'
    \/ loadData /\ ImportScope'
    \/ (\E l \in loads, response \in HttpResponses : httpGetSettles(l, response))
         /\ ImportScope'
    \/ (\E l \in loads : loadDataResumes(l)) /\ ImportScope'
    \/ (\E t \in FilterTypes : \E value \in FilterInputs(t) : onFilterChange(t, value))
         /\ ImportScope'
    \/ applyFilters /\ ImportScope'
    \/ (\E type \in InsightKinds : generateSummary(type)) /\ ImportScope'
    \/ (\E form \in ModalForms : onModalInput(form)) /\ ImportScope'
    \/ openModal /\ ImportScope'
    \/ closeModal /\ ImportScope'
    \/ generateLessonPlan /\ ImportScope'
    \/ generateStudentGuide /\ ImportScope'
    \/ (\E r \in requests : \E reply \in GeminiReplies(r) : callGeminiResumes(r, reply))
         /\ ImportScope'

SpecImport == Init /\ [][NextImport]_vars

NextReports ==
    \/ (\E value \in Urls : onUrlInput(value)) /\ ReportsScope'
    \/ loadData /\ ReportsScope'
    \/ (\E l \in loads, response \in HttpResponses : httpGetSettles(l, response))
         /\ ReportsScope'
    \/ (\E l \in loads : loadDataResumes(l)) /\ ReportsScope'
    \/ (\E t \in FilterTypes : \E value \in FilterInputs(t) : onFilterChange(t, value))
         /\ ReportsScope'
    \/ applyFilters /\ ReportsScope'
    \/ (\E type \in InsightKinds : generateSummary(type)) /\ ReportsScope'
    \/ (\E form \in ModalForms : onModalInput(form)) /\ ReportsScope'
    \/ openModal /\ ReportsScope'
    \/ closeModal /\ ReportsScope'
    \/ generateLessonPlan /\ ReportsScope'
    \/ generateStudentGuide /\ ReportsScope'
    \/ (\E r \in requests : \E reply \in GeminiReplies(r) : callGeminiResumes(r, reply))
         /\ ReportsScope'

SpecReports == Init /\ [][NextReports]_vars

NextFilters ==
    \/ (\E value \in Urls : onUrlInput(value)) /\ FiltersScope'
    \/ loadData /\ FiltersScope'
    \/ (\E l \in loads, response \in HttpResponses : httpGetSettles(l, response))
         /\ FiltersScope'
    \/ (\E l \in loads : loadDataResumes(l)) /\ FiltersScope'
    \/ (\E t \in FilterTypes : \E value \in FilterInputs(t) : onFilterChange(t, value))
         /\ FiltersScope'
    \/ applyFilters /\ FiltersScope'
    \/ (\E type \in InsightKinds : generateSummary(type)) /\ FiltersScope'
    \/ (\E form \in ModalForms : onModalInput(form)) /\ FiltersScope'
    \/ openModal /\ FiltersScope'
    \/ closeModal /\ FiltersScope'
    \/ generateLessonPlan /\ FiltersScope'
    \/ generateStudentGuide /\ FiltersScope'
    \/ (\E r \in requests : \E reply \in GeminiReplies(r) : callGeminiResumes(r, reply))
         /\ FiltersScope'

SpecFilters == Init /\ [][NextFilters]_vars

NextDates ==
    \/ (\E value \in Urls : onUrlInput(value)) /\ DatesScope'
    \/ loadData /\ DatesScope'
    \/ (\E l \in loads, response \in HttpResponses : httpGetSettles(l, response))
         /\ DatesScope'
    \/ (\E l \in loads : loadDataResumes(l)) /\ DatesScope'
    \/ (\E t \in FilterTypes : \E value \in FilterInputs(t) : onFilterChange(t, value))
         /\ DatesScope'
    \/ applyFilters /\ DatesScope'
    \/ (\E type \in InsightKinds : generateSummary(type)) /\ DatesScope'
    \/ (\E form \in ModalForms : onModalInput(form)) /\ DatesScope'
    \/ openModal /\ DatesScope'
    \/ closeModal /\ DatesScope'
    \/ generateLessonPlan /\ DatesScope'
    \/ generateStudentGuide /\ DatesScope'
    \/ (\E r \in requests : \E reply \in GeminiReplies(r) : callGeminiResumes(r, reply))
         /\ DatesScope'

SpecDates == Init /\ [][NextDates]_vars

NextModal ==
    \/ (\E value \in Urls : onUrlInput(value)) /\ ModalScope'
    \/ loadData /\ ModalScope'
    \/ (\E l \in loads, response \in HttpResponses : httpGetSettles(l, response))
         /\ ModalScope'
    \/ (\E l \in loads : loadDataResumes(l)) /\ ModalScope'
    \/ (\E t \in FilterTypes : \E value \in FilterInputs(t) : onFilterChange(t, value))
         /\ ModalScope'
    \/ applyFilters /\ ModalScope'
    \/ (\E type \in InsightKinds : generateSummary(type)) /\ ModalScope'
    \/ (\E form \in ModalForms : onModalInput(form)) /\ ModalScope'
    \/ openModal /\ ModalScope'
    \/ closeModal /\ ModalScope'
    \/ generateLessonPlan /\ ModalScope'
    \/ generateStudentGuide /\ ModalScope'
    \/ (\E r \in requests : \E reply \in GeminiReplies(r) : callGeminiResumes(r, reply))
         /\ ModalScope'

SpecModal == Init /\ [][NextModal]_vars

----------------------------------------------------------------------------
(* Vocabulary of the claims. *)

NotRequested(signal) == ~signal.loading /\ signal.content = Null
IsInFlight(signal) == signal.loading /\ signal.content = Null
IsAvailable(signal) == ~signal.loading /\ signal.content # Null

AllNotRequested == \A k \in ReportKinds : NotRequested(stateSignal[k])

AppliedIsPending ==
    /\ appliedStartDate = startDate
    /\ appliedEndDate = endDate
    /\ appliedSelectedMateria = selectedMateria
    /\ appliedSelectedParalelo = selectedParalelo

\* exactly one request, for report kind k, joins the outstanding ones
IssuesOne(k) ==
    \E r \in requests' : /\ r \notin requests
                         /\ r.kind = k
                         /\ requests' = requests \cup {r}

\* exactly one request, for report kind k, leaves the outstanding ones
CompletesOne(k) ==
    \E r \in requests : /\ r.kind = k
                        /\ requests' = requests \ {r}

\* the step is applyFilters, or the part of loadData after a successful import
AppliesFilters ==
    applyFilters \/ \E l \in loads : loadDataResumes(l) /\ l.outcome.error = "none"

----------------------------------------------------------------------------
(* C1 as stated: a report changes only from not-requested to in-flight,    *)
(* from in-flight to available, or back to not-requested when applyFilters *)
(* resets all six.  Refuted: generateSummary goes straight to available.   *)
C1_OnlyAlongTheChain ==
    [][\A k \in ReportKinds :
         stateSignal'[k] # stateSignal[k] =>
            \/ NotRequested(stateSignal[k]) /\ IsInFlight(stateSignal'[k])
            \/ IsInFlight(stateSignal[k]) /\ IsAvailable(stateSignal'[k])
            \/ AppliesFilters /\ NotRequested(stateSignal'[k])]_vars

(* C1 as amended: every change of a report's state is one of four.  To     *)
(* in-flight, from any state, by a call that issues exactly one request    *)
(* for that kind.  To available, from any state, by the completion of one  *)
(* outstanding request of that kind.  To available with the fixed message, *)
(* for an insight kind, by generateSummary without any request.  To        *)
(* not-requested, by applyFilters resetting all six.                       *)
C1_ReportTransitions ==
    [][\A k \in ReportKinds :
         stateSignal'[k] # stateSignal[k] =>
            \/ IsInFlight(stateSignal'[k]) /\ IssuesOne(k)
            \/ IsAvailable(stateSignal'[k]) /\ CompletesOne(k)
            \/ /\ k \in InsightKinds
               /\ lastCall' = k
               /\ stateSignal'[k].content = NoMeaningfulResponses
               /\ ~stateSignal'[k].loading
               /\ requests' = requests
            \/ AppliesFilters /\ AllNotRequested']_vars

\* C1's case: a report is available although no request was ever issued
C1_Witness ==
    /\ nextRequest = 1
    /\ \E k \in InsightKinds : IsAvailable(stateSignal[k])

----------------------------------------------------------------------------
(* C2: right after applyFilters, also the one a successful loadData runs,  *)
(* all six reports are not-requested, whatever they were before, and the   *)
(* applied selection equals the pending one.                               *)
C2_ApplyFiltersResets ==
    [][AppliesFilters => AllNotRequested' /\ AppliedIsPending']_vars

\* C2's case: a selection is applied and a report whose request is still
\* outstanding is back to not-requested
C2_Witness ==
    /\ AllNotRequested
    /\ AppliedIsPending
    /\ appliedSelectedMateria # ""
    /\ appliedSelectedParalelo # ""
    /\ \E r \in requests : NotRequested(stateSignal[r.kind])

----------------------------------------------------------------------------
FailsOn(l, errors) == loadDataResumes(l) /\ l.outcome.error \in errors

(* C3 as stated: when loadData fails with InvalidUrl or SchemaMismatch the *)
(* record set is left as it was.  Refuted: the catch block empties it.     *)
C3_FailedImportKeepsData ==
    [][\A l \in loads :
         FailsOn(l, {"InvalidUrl", "SchemaMismatch"}) => allData' = allData]_vars

(* C3 as amended: when loadData fails with InvalidUrl or SchemaMismatch,   *)
(* the record set is untouched up to the failure (neither loadData's       *)
(* synchronous part nor loadDataFromSheet writes it), and the catch block  *)
(* then sets it to the empty sequence: it is left as it was only when it   *)
(* was empty already.                                                      *)
C3_FailedImportClearsData ==
    [][/\ \A l \in loads :
            FailsOn(l, {"InvalidUrl", "SchemaMismatch"}) => allData' = <<>>
       /\ loadData => allData' = allData
       /\ \A l \in loads, response \in HttpResponses :
            httpGetSettles(l, response) => allData' = allData]_vars

\* C3's case: an import failed on the URL or the headers after rows had been
\* imported (an insight report was generated from them), and no row is left
C3_Witness ==
    /\ errorMessage \in {"InvalidUrl", "SchemaMismatch"}
    /\ loads = {}
    /\ allData = <<>>
    /\ \E k \in InsightKinds : stateSignal[k].content # Null

----------------------------------------------------------------------------
(* C4: any import-stage failure of loadData aborts the load: afterwards    *)
(* the record set is empty, an error message is set, dataLoaded is false   *)
(* and isLoading is false.                                                 *)
C4_FailedImportAborts ==
    [][\A l \in loads :
         (loadDataResumes(l) /\ l.outcome.error # "none") =>
            /\ allData' = <<>>
            /\ errorMessage' # NullMessage
            /\ ~dataLoaded'
            /\ ~isLoading']_vars

----------------------------------------------------------------------------
\* the raw answers of the imported sheets that are blank, a bare period or one
\* of the tokens no / ninguna / ninguno / nada in any case
DroppedAnswers == {<<>>, Blank, Dot, No, Nada, Ninguna, Ninguno}
AnswersOf(type) ==
    {filteredData[i][dataIndex(type)] : i \in 1..Len(filteredData)}
NoResponseRemains(type) == AnswersOf(type) \subseteq DroppedAnswers

\* the plan report holds content and is not in flight
PlanReady ==
    /\ ~stateSignal["lessonPlan"].loading
    /\ stateSignal["lessonPlan"].content # Null
    /\ stateSignal["lessonPlan"].content.text # <<>>

\* one of the five mandatory inputs of the modal is the empty string
SomeMandatoryInputEmpty ==
    \/ modal["modalNextTopic"] = ""
    \/ modal["modalNumStudents"] = ""
    \/ modal["modalClassDuration"] = ""
    \/ modal["modalMateriaOutcome"] = ""
    \/ modal["modalUnitOutcome"] = ""

\* the precondition under which a generate* call goes to the boundary
Proceeds(k) ==
    CASE k \in InsightKinds -> Len(filteredData) > 0 /\ ~NoResponseRemains(k)
      [] k = "lessonPlan" -> ~SomeMandatoryInputEmpty
      [] k = "studentGuide" -> PlanReady

(* C5 as stated, with rows imported: when generateSummary is called for an *)
(* insight kind and no response remains, the report settles to available   *)
(* with the fixed message and no request is issued.  Refuted: when the     *)
(* applied selection leaves no row, the call returns at once and the       *)
(* report stays as it was.                                                 *)
C5_ShortCircuitWhenNothingRemains ==
    [][\A type \in InsightKinds :
         (lastCall' = type /\ dataLoaded /\ allData # <<>> /\ NoResponseRemains(type)) =>
            /\ stateSignal'[type] = [loading |-> FALSE, content |-> NoMeaningfulResponses]
            /\ requests' = requests]_vars

(* C5 as amended: when generateSummary is called for an insight kind with  *)
(* a non-empty filtered set and no response remains after dropping the     *)
(* non-answers, the report settles to available with the fixed message and *)
(* no request is issued; when at least one response remains exactly one    *)
(* request is issued; with an empty filtered set the call changes nothing. *)
C5_ShortCircuitOnNonEmptyData ==
    [][\A type \in InsightKinds :
         lastCall' = type =>
            IF Len(filteredData) = 0
            THEN stateSignal' = stateSignal /\ requests' = requests
            ELSE IF NoResponseRemains(type)
            THEN /\ stateSignal'[type] = [loading |-> FALSE, content |-> NoMeaningfulResponses]
                 /\ requests' = requests
            ELSE /\ IssuesOne(type)
                 /\ Cardinality(requests') = Cardinality(requests) + 1]_vars

\* C5's case: under an applied selection the rows that remain hold only
\* non-answers for the kind just asked for, and its report holds the message
C5_Witness ==
    /\ lastCall \in InsightKinds
    /\ appliedSelectedMateria # ""
    /\ Len(filteredData) > 0
    /\ stateSignal[lastCall] = [loading |-> FALSE, content |-> NoMeaningfulResponses]
    /\ requests = {}

----------------------------------------------------------------------------
(* C6: when generateContent fails for a request of one report kind, that   *)
(* kind becomes available (loading false) with an error message as its     *)
(* content, and the other five reports, the record set, the applied        *)
(* selection and the import flags stay as they were.                       *)
C6_FailureStaysLocal ==
    [][\A r \in requests : \A reply \in GeminiReplies(r) :
         (callGeminiResumes(r, reply) /\ ~reply.ok) =>
            /\ ~stateSignal'[r.kind].loading
            /\ stateSignal'[r.kind].content # Null
            /\ stateSignal'[r.kind].content.from = "error"
            /\ \A k \in ReportKinds \ {r.kind} : stateSignal'[k] = stateSignal[k]
            /\ allData' = allData
            /\ UNCHANGED <<appliedVars, importVars>>]_vars

\* C6's case: one report holds an error message and a request for another
\* report has just been started
C6_Witness ==
    /\ lastCall \in ReportKinds
    /\ stateSignal[lastCall] = [loading |-> TRUE, content |-> Null]
    /\ \E k \in ReportKinds \ {lastCall} :
          /\ stateSignal[k].content # Null
          /\ stateSignal[k].content.from = "error"

----------------------------------------------------------------------------
\* what a report holds once the request r has completed
ResultsOf(r) ==
    {[tag |-> "html", from |-> "marked", text |-> <<"md", r.id>>],
     [tag |-> "html", from |-> "marked", text |-> <<>>],
     [tag |-> "html", from |-> "error", text |-> <<"Failed to generate content">>]}

(* C7: a request for a report kind that already has one in flight is       *)
(* neither rejected nor cancels the first: a request leaves the boundary   *)
(* only when its own completion is applied, which writes its own result    *)
(* over the report, so the report holds the result of the request that     *)
(* completed last, in whatever order they were issued.                     *)
C7_LastCompletionWins ==
    [][/\ \A r \in requests :
            r \notin requests' =>
               /\ requests' = requests \ {r}
               /\ ~stateSignal'[r.kind].loading
               /\ stateSignal'[r.kind].content \in ResultsOf(r)
       /\ \A k \in ReportKinds :
            (lastCall' = k /\ Proceeds(k) /\ \E r \in requests : r.kind = k) =>
               /\ IssuesOne(k)
               /\ requests \subseteq requests'
               /\ stateSignal'[k] = [loading |-> TRUE, content |-> Null]]_vars

\* C7's case: of two requests for one report the second has completed and
\* its text is shown while the first is still outstanding
C7_Witness ==
    \E r \in requests :
       /\ r.id = 1
       /\ nextRequest = 3
       /\ stateSignal[r.kind] =
             [loading |-> FALSE,
              content |-> [tag |-> "html", from |-> "marked", text |-> <<"md", 2>>]]

----------------------------------------------------------------------------
(* C8: overlapping loadData calls are not guarded against each other: a    *)
(* call made while an import is pending starts another one, no pending     *)
(* import is dropped, and each completion writes the record set (its rows  *)
(* when it succeeded, the empty sequence when it failed), so the record    *)
(* set is the one of the import that completed last.                       *)
C8_LastImportWins ==
    [][/\ \A l \in loads :
            (\A m \in loads' : m.id # l.id) =>
               /\ l.state = "settled"
               /\ Cardinality(loads') = Cardinality(loads) - 1
               /\ allData' = IF l.outcome.error = "none" THEN l.outcome.data ELSE <<>>
       /\ loadData => Cardinality(loads') = Cardinality(loads) + 1]_vars

\* C8's case: of two overlapping imports the second has completed and its
\* rows are the record set while the first is still pending
C8_Witness ==
    /\ nextLoad = 3
    /\ \E l \in loads : l.id = 1 /\ loads = {l}
    /\ allData # <<>>

----------------------------------------------------------------------------
(* C9: generateStudentGuide issues a request only when the plan report     *)
(* holds content and is not in flight, and the request's prompt carries    *)
(* the plan's content of that moment; when the plan is not-requested, in   *)
(* flight or empty the call changes nothing.                               *)
C9_StudentGuideNeedsPlan ==
    [][lastCall' = "studentGuide" =>
         IF PlanReady
         THEN /\ IssuesOne("studentGuide")
              /\ \A r \in requests' \ requests :
                    r.userQuery.plan = stateSignal["lessonPlan"].content
              /\ stateSignal'["studentGuide"] = [loading |-> TRUE, content |-> Null]
         ELSE UNCHANGED <<stateSignal, requests, nextRequest, allData, sheetUrl,
                          importVars, filterVars, appliedVars, modalVars,
                          loads, nextLoad>>]_vars

\* C9's case: a study guide has just been requested from a generated plan
C9_Witness ==
    /\ lastCall = "studentGuide"
    /\ stateSignal["lessonPlan"].content # Null
    /\ stateSignal["lessonPlan"].content.from = "marked"
    /\ \E r \in requests :
          r.kind = "studentGuide" /\ r.userQuery.plan = stateSignal["lessonPlan"].content

----------------------------------------------------------------------------
----------------------------------------------------------------------------
\* the Materia a prompt names when it is built from the applied selection
AppliedMateriaLabel(kind) ==
    IF kind \in InsightKinds /\ appliedSelectedMateria = ""
    THEN "Todas" ELSE appliedSelectedMateria

(* C11: an edit of the pending selection (onFilterChange) changes only the *)
(* pending selection: the applied selection, the filtered set, the six     *)
(* report states and the outstanding requests stay as they were, and every *)
(* prompt sent to the generation boundary is built from the applied        *)
(* selection, never from the pending one.                                  *)
C11_OnlyAppliedSelectionCounts ==
    [][/\ (\E filterType \in FilterTypes : \E value \in FilterInputs(filterType) :
              onFilterChange(filterType, value)) =>
             /\ UNCHANGED <<appliedVars, stateSignal, requests, allData>>
             /\ filteredData' = filteredData
       /\ \A r \in requests' \ requests :
             r.userQuery.materia = AppliedMateriaLabel(r.kind)]_vars

----------------------------------------------------------------------------
\* the calendar day, in the user's time zone, of an imported row's Timestamp
LocalDay(row) == (row["Timestamp"] + tzOffset) \div HoursPerDay
HasDate(row) == row["Timestamp"] # NaN

\* the four bounds of the applied selection, as the filter is specified
SatisfiesBounds(row) ==
    /\ appliedStartDate # "" =>
          HasDate(row) /\ LocalDay(row) >= DayOfInput(appliedStartDate)
    /\ appliedEndDate # "" =>
          HasDate(row) /\ LocalDay(row) <= DayOfInput(appliedEndDate)
    /\ appliedSelectedMateria # "" => row["Materia"] = appliedSelectedMateria
    /\ appliedSelectedParalelo # "" => row["Paralelo"] = appliedSelectedParalelo

(* C12: filteredData is exactly the sub-sequence, in source order, of the  *)
(* records that satisfy the four bounds of the applied selection: on/after *)
(* the start date, on/before the end of the end date, Materia and Paralelo *)
(* equal to the selected ones, each when set; an all-empty selection gives *)
(* the record set itself and an empty record set gives an empty result.    *)
C12_FilteredDataIsTheMatchingRows ==
    /\ filteredData = SelectSeq(allData, SatisfiesBounds)
    /\ (appliedStartDate = "" /\ appliedEndDate = "" /\ appliedSelectedMateria = ""
          /\ appliedSelectedParalelo = "") => filteredData = allData
    /\ allData = <<>> => filteredData = <<>>

----------------------------------------------------------------------------
\* the report holds text that the generation boundary returned
HoldsGenerated(signal) == signal.content # Null /\ signal.content.from = "marked"

\* a request still outstanding although its report is not-requested: the
\* report was reset by applyFilters while the request was in flight
OutlivedReset(r) == NotRequested(stateSignal[r.kind])

(* C13: a report that is available with generated content holds the       *)
(* result of a request issued under the current applied selection and the  *)
(* current record set: the completion of a request that was in flight when  *)
(* applyFilters (or a successful loadData) ran leaves its report as the     *)
(* reset left it, and no generated content stays visible once the record    *)
(* set has changed.                                                         *)
C13_NoStaleResultVisible ==
    [][/\ \A r \in requests :
            (OutlivedReset(r) /\ r \notin requests') =>
               stateSignal'[r.kind] = stateSignal[r.kind]
       /\ allData' # allData =>
            \A k \in ReportKinds : ~HoldsGenerated(stateSignal'[k])]_vars

----------------------------------------------------------------------------
Outstanding(k) == \E r \in requests : r.kind = k

(* C14: in every reachable state and for every report kind, the report is  *)
(* in flight (loading true, content null) whenever a request of that kind   *)
(* is outstanding at the generation boundary, and its loading flag is false *)
(* whenever none is.                                                        *)
C14_LoadingIffOutstanding ==
    \A k \in ReportKinds :
       /\ Outstanding(k) => IsInFlight(stateSignal[k])
       /\ ~Outstanding(k) => ~stateSignal[k].loading

----------------------------------------------------------------------------
\* the record sets that loadDataFromSheet can resolve with
SuccessfulImports ==
    {SheetOutcome(response).data :
        response \in {x \in HttpResponses : SheetOutcome(x).error = "none"}}

(* C15: in every reachable state isLoading is true while an import is      *)
(* pending, and once none is pending the import flags agree: dataLoaded     *)
(* implies no error message and a record set that a successful import       *)
(* produced; an error message implies dataLoaded false and an empty record  *)
(* set.                                                                     *)
C15_ImportFlagsConsistent ==
    /\ loads # {} => isLoading
    /\ loads = {} =>
          /\ dataLoaded => errorMessage = NullMessage /\ allData \in SuccessfulImports
          /\ errorMessage # NullMessage => ~dataLoaded /\ allData = <<>>

====
